---- MODULE Spec2Model ----
(***************************************************************************)
(* Model of script.py: the catalog pipeline load_data -> process_catalog   *)
(* (identifier check, alias mapping, extract_filters, duplicate merge,     *)
(* sort, save).                                                            *)
(*                                                                         *)
(* Strings.  A Python string is modelled as a sequence of chunks; a chunk  *)
(* is an atomic run of characters (a word, a blank " ", a sign).  The      *)
(* string operations of the script (strip, lower, "in", replace, join,     *)
(* str) are defined on chunk sequences.  Cyrillic text is transliterated   *)
(* to ASCII, the capitalisation of the source is kept.                     *)
(*                                                                         *)
(* Cell values.  A cell is NaN (pandas' missing value), a string or an     *)
(* integer.  An integer cell is a Python int and reaches str() as one;    *)
(* pandas' upcast of a numeric column with missing cells to float is not   *)
(* modelled.                                                               *)
(***************************************************************************)
EXTENDS Integers, Sequences, FiniteSets, TLC

VARIABLES found, files, dataframes, pc, raw_df, temp_df, final_df, output,
          fx_pc, fx_row, fx_cols, fx_result

vars == <<found, files, dataframes, pc, raw_df, temp_df, final_df, output,
          fx_pc, fx_row, fx_cols, fx_result>>

pipeline_vars == <<found, files, dataframes, pc, raw_df, temp_df, final_df, output>>

filter_vars == <<fx_pc, fx_row, fx_cols, fx_result>>

(***************************************************************************)
(* Cell values                                                             *)
(***************************************************************************)
NaN == [kind |-> "nan", n |-> 0, s |-> <<>>]

Str(s) == [kind |-> "str", n |-> 0, s |-> s]

Num(n) == [kind |-> "int", n |-> n, s |-> <<>>]

notna(v) == v.kind # "nan"

(***************************************************************************)
(* String primitives                                                       *)
(***************************************************************************)
Range(f) == {f[i] : i \in DOMAIN f}

IsSpace(c) == c = " "

RECURSIVE LStrip(_)
LStrip(s) == IF s # <<>> /\ IsSpace(Head(s)) THEN LStrip(Tail(s)) ELSE s

RECURSIVE RStrip(_)
RStrip(s) ==
    IF s # <<>> /\ IsSpace(s[Len(s)]) THEN RStrip(SubSeq(s, 1, Len(s) - 1)) ELSE s

\* str.strip()
Strip(s) == RStrip(LStrip(s))

LowerChunk(c) ==
    CASE c = "Dopolnitelnyj" -> "dopolnitelnyj"
      [] c = "Filtr" -> "filtr"
      [] c = "FILTR" -> "filtr"
      [] c = "Tonkoj" -> "tonkoj"
      [] c = "Ochistki" -> "ochistki"
      [] c = "Da" -> "da"
      [] c = "DA" -> "da"
      [] c = "Yes" -> "yes"
      [] c = "True" -> "true"
      [] c = "Est" -> "est"
      [] c = "Net" -> "net"
      [] c = "HEPA" -> "hepa"
      [] OTHER -> c

\* str.lower()
Lower(s) == [i \in DOMAIN s |-> LowerChunk(s[i])]

StartsWith(s, p) == Len(p) <= Len(s) /\ SubSeq(s, 1, Len(p)) = p

\* sub in s
Contains(s, sub) ==
    \E i \in 0..(Len(s) - Len(sub)) : SubSeq(s, i + 1, i + Len(sub)) = sub

\* s.replace(old, new): every non-overlapping occurrence, left to right
RECURSIVE Replace(_, _, _)
Replace(s, old, new) ==
    IF s = <<>> THEN <<>>
    ELSE IF StartsWith(s, old)
         THEN new \o Replace(SubSeq(s, Len(old) + 1, Len(s)), old, new)
         ELSE <<Head(s)>> \o Replace(Tail(s), old, new)

\* sep.join(parts)
RECURSIVE Join(_, _)
Join(sep, parts) ==
    IF parts = <<>> THEN <<>>
    ELSE IF Len(parts) = 1 THEN parts[1]
    ELSE parts[1] \o sep \o Join(sep, Tail(parts))

DigitChunk(d) ==
    CASE d = 0 -> "0" [] d = 1 -> "1" [] d = 2 -> "2" [] d = 3 -> "3"
      [] d = 4 -> "4" [] d = 5 -> "5" [] d = 6 -> "6" [] d = 7 -> "7"
      [] d = 8 -> "8" [] d = 9 -> "9"

RECURSIVE Digits(_)
Digits(n) ==
    IF n < 10 THEN <<DigitChunk(n)>>
    ELSE Digits(n \div 10) \o <<DigitChunk(n % 10)>>

\* str(value)
PyStr(v) ==
    CASE v.kind = "nan" -> <<"nan">>
      [] v.kind = "int" -> Digits(v.n)
      [] OTHER -> v.s

(***************************************************************************)
(* Configuration                                                           *)
(***************************************************************************)
ARTIKUL == <<"Artikul">>

PROIZVODITEL == <<"Proizvoditel">>

FILTERS_FIELD == <<"Filtry", " ", "tonkoj", " ", "ochistki", " ", "vozduha">>

MAPPING == <<
    [target |-> PROIZVODITEL,
     sources |-> << <<"Brend">>, <<"Proizvoditel">>,
                    <<"Zavodskaya", " ", "markirovka">> >>],
    [target |-> <<"Cena">>,
     sources |-> << <<"Cena">>, <<"Roznichnaya", " ", "cena">>,
                    <<"Cena", " ", "so", " ", "skidkoj">>, <<"Stoimost">>,
                    <<"Price">>, <<"RRC">> >>],
    [target |-> <<"Moshhnost", " ", "v", " ", "rezhime", " ", "ohlazhdeniya">>,
     sources |-> << <<"Holodoproizvoditelnost", " ", "(kVt)">>,
                    <<"Nominalnaya", " ", "holodoproizvoditelnost,", " ", "kVt">>,
                    <<"Nominalnaya", " ", "holodoproizvoditelnost">>,
                    <<"Ohlazhdenie", " ", "(kVt)">>,
                    <<"Proizv.", " ", "holod,", " ", "kVt">>,
                    <<"Proizvoditelnost", " ", "holod", " ", ",", " ", "kVt">>,
                    <<"Holodoproizvoditelnost">>,
                    <<"Ohlazhdenie", " ", "(Vt)">> >>],
    [target |-> <<"Tip", " ", "hladagenta">>,
     sources |-> << <<"Tip", " ", "hladagenta">>, <<"Marka", " ", "freona">> >>],
    [target |-> <<"Cvet">>,
     sources |-> << <<"Cvet", " ", "vnutrennego", " ", "bloka">>,
                    <<"Cvet", " ", "pribora">>, <<"Cvet">> >>],
    [target |-> <<"Klass", " ", "energopotrebleniya">>,
     sources |-> << <<"Klass", " ", "energopotrebleniya">>,
                    <<"Klass", " ", "energoeffektivnosti", " ", "(ohlazhdenie)">>,
                    <<"Klass", " ", "energoeffektivnosti", " ", "EER", " ", "(ohlazhdenie)">>,
                    <<"Klass", " ", "energeticheskoj", " ", "effektivnosti">> >>],
    [target |-> <<"Invertor/Tip", " ", "kompressora">>,
     sources |-> << <<"Invertornaya", " ", "tehnologiya">>,
                    <<"Tip", " ", "kompressora">>, <<"Invertor">>,
                    <<"Invertornyj", " ", "kompressor">>,
                    <<"Tip", " ", "upravleniya", " ", "kompressorom">> >>],
    [target |-> <<"Osnovnye", " ", "rezhimy", " ", "(rezhim", " ", "raboty)">>,
     sources |-> << <<"Rezhim", " ", "raboty">>,
                    <<"Osnovnye", " ", "rezhimy", " ", "(rezhim", " ", "raboty)">>,
                    <<"Rezhimy", " ", "raboty">> >>],
    [target |-> <<"Uroven", " ", "shuma">>,
     sources |-> << <<"Uroven", " ", "shuma", " ", "vnutrennego", " ", "bloka,", " ", "dB(A)">>,
                    <<"Uroven", " ", "shuma", " ", "vnutrennego", " ", "bloka">>,
                    <<"Uroven", " ", "zvukovogo", " ", "davleniya", " ", "dB(A)">>,
                    <<"Min.", " ", "uroven", " ", "shuma", " ", ",", " ", "dB(A)">> >>],
    [target |-> <<"Maksimalnaya", " ", "dlina", " ", "kommunikacij">>,
     sources |-> << <<"Maksimalnaya", " ", "dlina", " ", "trassy">>,
                    <<"Max.dlina", " ", "magistrali", " ", ",", " ", "m">>,
                    <<"Dlina", " ", "trassy,", " ", "m">>,
                    <<"Maksimalnaya", " ", "dlina", " ", "trub,", " ", "m">> >>],
    [target |-> <<"Model">>,
     sources |-> << <<"Nazvanie">>, <<"Model">>,
                    <<"Model", " ", "vnutrennego", " ", "bloka">> >>],
    [target |-> <<"Izobrazhenie">>,
     sources |-> << <<"Izobrazheniya">>, <<"Fajly">> >>]
>>

FILTER_KEYS == <<
    <<"Dopolnitelnye", " ", "filtry", " ", "tonkoj", " ", "ochistki", " ", "v", " ", "komplekte">>,
    <<"Filtra">>,
    <<"Vozdushnyj", " ", "filtr">>
>>

YES_VALUES == { <<"da">>, <<"+">>, <<"yes">>, <<"true">>, <<"1">>, <<"est">> }

\* the literal "фильтр тонкой очистки" of extract_filters
FILTER_MARKER == <<"filtr", " ", "tonkoj", " ", "ochistki">>

\* the literal "Дополнительный фильтр тонкой очистки " of extract_filters
FILTER_PREFIX == <<"Dopolnitelnyj", " ", "filtr", " ", "tonkoj", " ", "ochistki", " ">>

(***************************************************************************)
(* extract_filters(row, source_columns)                                    *)
(***************************************************************************)
\* the first loop: the direct filter columns, in FILTER_KEYS order
DirectFilters(row) ==
    LET Keep(key) == /\ key \in DOMAIN row
                     /\ notna(row[key])
                     /\ Strip(PyStr(row[key])) # <<>>
        keys == SelectSeq(FILTER_KEYS, Keep)
    IN  [i \in DOMAIN keys |-> PyStr(row[keys[i]])]

boolean_cols(source_columns) ==
    LET IsFlag(c) == /\ Contains(Lower(c), FILTER_MARKER)
                     /\ c \notin Range(FILTER_KEYS)
    IN  SelectSeq(source_columns, IsFlag)


\* the second loop with the cell compared as it stands, neither trimmed nor lowered
BooleanFilters_untrimmed(row, source_columns) ==
    LET IsYes(col) == PyStr(row[col]) \in YES_VALUES
        cols == SelectSeq(boolean_cols(source_columns), IsYes)
    IN  [i \in DOMAIN cols |-> Replace(cols[i], FILTER_PREFIX, <<>>)]

\* the second loop: the affirmative boolean columns, in source_columns order
BooleanFilters(row, source_columns) ==
    LET IsYes(col) == Lower(Strip(PyStr(row[col]))) \in YES_VALUES
        cols == SelectSeq(boolean_cols(source_columns), IsYes)
    IN  [i \in DOMAIN cols |-> Replace(cols[i], FILTER_PREFIX, <<>>)]

active_filters(row, source_columns) ==
    DirectFilters(row) \o BooleanFilters(row, source_columns)

extract_filters(row, source_columns) ==
    LET active == active_filters(row, source_columns)
    IN  IF active # <<>> THEN Str(Join(<<",", " ">>, active)) ELSE NaN

(***************************************************************************)
(* Data frames                                                             *)
(***************************************************************************)
\* load_data's "no data" result
None == [none |-> TRUE, columns |-> <<>>, rows |-> <<>>]

\* columns: the column names in order; rows: one function column -> cell per row
DataFrame(columns, rows) == [none |-> FALSE, columns |-> columns, rows |-> rows]

\* df[c]
Column(df, c) == [i \in DOMAIN df.rows |-> df.rows[i][c]]


\* df[name] = series with a new column put first
WithColumn_first(df, name, series) ==
    DataFrame(
        IF name \in Range(df.columns) THEN df.columns ELSE <<name>> \o df.columns,
        IF df.columns = <<>>
        THEN [i \in DOMAIN series |-> (name :> series[i])]
        ELSE [i \in DOMAIN df.rows |-> (name :> series[i]) @@ df.rows[i]])

\* df[name] = series (a new column goes last; an empty frame takes the series' index)
WithColumn(df, name, series) ==
    DataFrame(
        IF name \in Range(df.columns) THEN df.columns ELSE Append(df.columns, name),
        IF df.columns = <<>>
        THEN [i \in DOMAIN series |-> (name :> series[i])]
        ELSE [i \in DOMAIN df.rows |-> (name :> series[i]) @@ df.rows[i]])

\* df[name] = np.nan
WithScalar(df, name, v) == WithColumn(df, name, [i \in DOMAIN df.rows |-> v])

(***************************************************************************)
(* load_data(folder): the frames of the files, their concatenation         *)
(***************************************************************************)
\* pd.read_excel(file) of a file that parses, then the header strip of line 121
read_excel(file) ==
    LET columns == [i \in DOMAIN file.header |-> Strip(file.header[i])]
        At(c) == CHOOSE i \in DOMAIN columns : columns[i] = c
    IN  DataFrame(columns,
                  [r \in DOMAIN file.cells |->
                      [c \in Range(columns) |-> file.cells[r][At(c)]]])

RECURSIVE AppendNew(_, _)
AppendNew(columns, more) ==
    IF more = <<>> THEN columns
    ELSE AppendNew(IF Head(more) \in Range(columns) THEN columns
                   ELSE Append(columns, Head(more)),
                   Tail(more))

RECURSIVE UnionColumns(_)
UnionColumns(frames) ==
    IF frames = <<>> THEN <<>>
    ELSE AppendNew(UnionColumns(SubSeq(frames, 1, Len(frames) - 1)),
                   frames[Len(frames)].columns)

RECURSIVE StackRows(_, _)
StackRows(frames, columns) ==
    IF frames = <<>> THEN <<>>
    ELSE LET df == Head(frames)
         IN  [i \in DOMAIN df.rows |->
                 [c \in Range(columns) |->
                     IF c \in DOMAIN df.rows[i] THEN df.rows[i][c] ELSE NaN]]
             \o StackRows(Tail(frames), columns)

\* pd.concat(frames, axis=0, ignore_index=True)
concat(frames) ==
    LET columns == UnionColumns(frames)
    IN  DataFrame(columns, StackRows(frames, columns))

(***************************************************************************)
(* process_catalog: alias mapping                                          *)
(***************************************************************************)

\* the columns in reverse order
current_cols_reversed(df) ==
    [i \in DOMAIN df.columns |-> df.columns[Len(df.columns) + 1 - i]]

\* raw_df.columns.tolist()
current_cols(df) == df.columns

\* next((s for s in sources if s in cols), None); None is the empty name
NoMatch == <<>>


\* the last alias present instead of the first
match_last(sources, cols) ==
    LET hits == SelectSeq(sources, LAMBDA s : s \in Range(cols))
    IN  IF hits = <<>> THEN NoMatch ELSE hits[Len(hits)]

match(sources, cols) ==
    LET hits == SelectSeq(sources, LAMBDA s : s \in Range(cols))
    IN  IF hits = <<>> THEN NoMatch ELSE hits[1]

\* one iteration of the loop over MAPPING.items()
MapTarget(temp, raw, entry) ==
    LET m == match(entry.sources, current_cols(raw))
    IN  IF m # NoMatch THEN WithColumn(temp, entry.target, Column(raw, m))
        ELSE WithScalar(temp, entry.target, NaN)

RECURSIVE MapFrom(_, _, _)
MapFrom(temp, raw, k) ==
    IF k > Len(MAPPING) THEN temp
    ELSE MapFrom(MapTarget(temp, raw, MAPPING[k]), raw, k + 1)

(***************************************************************************)
(* process_catalog: duplicate merge                                        *)
(***************************************************************************)
ChunkOrder == <<"A", "B", "C">>

ChunkCode(c) == CHOOSE i \in DOMAIN ChunkOrder : ChunkOrder[i] = c

RECURSIVE StrLess(_, _)
StrLess(a, b) ==
    IF b = <<>> THEN FALSE
    ELSE IF a = <<>> THEN TRUE
    ELSE IF Head(a) = Head(b) THEN StrLess(Tail(a), Tail(b))
    ELSE ChunkCode(Head(a)) < ChunkCode(Head(b))

\* a < b for two cells of one kind (a column of the inputs holds one kind)
ValueLess(a, b) ==
    CASE a.kind = "int" /\ b.kind = "int" -> a.n < b.n
      [] a.kind = "str" /\ b.kind = "str" -> StrLess(a.s, b.s)
      [] OTHER -> FALSE

RECURSIVE SortedSeq(_)
SortedSeq(S) ==
    IF S = {} THEN <<>>
    ELSE LET least == CHOOSE x \in S : \A y \in S \ {x} : ValueLess(x, y)
         IN  <<least>> \o SortedSeq(S \ {least})


\* the last non-missing value instead of the first
FirstValid_last(x) ==
    LET valid == SelectSeq(x, notna)
    IN  IF valid # <<>> THEN valid[Len(valid)] ELSE NaN

\* the lambda of agg: x.dropna().iloc[0] if not x.dropna().empty else np.nan
FirstValid(x) ==
    LET valid == SelectSeq(x, notna)
    IN  IF valid # <<>> THEN valid[1] ELSE NaN


\* one key per row with an identifier, duplicates kept
GroupKeys_per_row(df, by) == SelectSeq(Column(df, by), notna)

\* the group keys of groupby(by): the non-missing values of the key column, sorted
GroupKeys(df, by) == SortedSeq({v \in Range(Column(df, by)) : notna(v)})


\* groupby whose groups also take the rows with a missing key
groupby_agg_with_missing(df, by) ==
    LET keys == GroupKeys(df, by)
        others == SelectSeq(df.columns, LAMBDA c : c # by)
        Group(key) == SelectSeq(df.rows, LAMBDA r : r[by] = key \/ ~notna(r[by]))
    IN  DataFrame(<<by>> \o others,
                  [g \in DOMAIN keys |->
                      [c \in Range(df.columns) |->
                          IF c = by THEN keys[g]
                          ELSE FirstValid([i \in DOMAIN Group(keys[g]) |->
                                              Group(keys[g])[i][c]])]])

\* df.groupby(by, as_index=False).agg(FirstValid)
groupby_agg(df, by) ==
    LET keys == GroupKeys(df, by)
        others == SelectSeq(df.columns, LAMBDA c : c # by)
        Group(key) == SelectSeq(df.rows, LAMBDA r : r[by] = key)
    IN  DataFrame(<<by>> \o others,
                  [g \in DOMAIN keys |->
                      [c \in Range(df.columns) |->
                          IF c = by THEN keys[g]
                          ELSE FirstValid([i \in DOMAIN Group(keys[g]) |->
                                              Group(keys[g])[i][c]])]])

(***************************************************************************)
(* process_catalog: sort                                                   *)
(***************************************************************************)
Reorderings(n) ==
    {p \in [1..n -> 1..n] : \A i, j \in 1..n : i # j => p[i] # p[j]}

\* The orders sort_values(by, na_position='last') can leave the rows in.  No
\* kind is given, so the sort is pandas' default quicksort, which is not a
\* stable sort: rows with equal keys may come out in any order.  The rows with
\* a missing key are appended after the sort in their original order.
\* p[i] is the input position of the row at output position i.
SortOrders(keys) ==
    {p \in Reorderings(Len(keys)) :
        \A i, j \in DOMAIN keys :
            i < j =>
                /\ ~(~notna(keys[p[i]]) /\ notna(keys[p[j]]))
                /\ (notna(keys[p[i]]) /\ notna(keys[p[j]])
                        => ~ValueLess(keys[p[j]], keys[p[i]]))
                /\ (~notna(keys[p[i]]) /\ ~notna(keys[p[j]]) => p[i] < p[j])}

\* the frames df.sort_values(by, na_position='last') can produce
sort_values(df, by) ==
    {DataFrame(df.columns, [i \in DOMAIN df.rows |-> df.rows[p[i]]]) :
        p \in SortOrders(Column(df, by))}

(***************************************************************************)
(* Inputs: the .xlsx files of the data folder                              *)
(***************************************************************************)
MaxFiles == 2

\* the rows of all files together
MaxRows == 2

FLAG_UGOLNYJ == FILTER_PREFIX \o <<"ugolnyj">>

FLAG_HEPA == FILTER_PREFIX \o <<"HEPA">>

BREND == <<"Brend">>

CENA == <<"Cena">>

\* The header rows the files are drawn from.  The second pads the identifier
\* column's name, uses the second manufacturer alias and lists the two flag
\* columns in the other order; the third has no identifier column.
HeaderA == <<ARTIKUL, BREND, FLAG_UGOLNYJ>>

HeaderB == << <<" ", "Artikul", " ">>, PROIZVODITEL, FLAG_HEPA, FLAG_UGOLNYJ>>

HeaderC == <<BREND, CENA>>

Headers == {HeaderA, HeaderB, HeaderC}

\* the cells a sheet with this header may hold in the column
CellsOf(header, column) ==
    CASE column = ARTIKUL /\ header = HeaderA -> {Num(1), Num(2), NaN}
      [] column = ARTIKUL -> {Num(1), Num(2)}
      [] column = BREND /\ header = HeaderA -> {Str(<<"A">>), Str(<<"B">>)}
      [] column = BREND -> {Str(<<"A">>)}
      [] column = PROIZVODITEL -> {Str(<<"C">>)}
      [] column = CENA -> {Num(100)}
      [] column = FLAG_HEPA -> {Str(<<"da">>)}
      [] column = FLAG_UGOLNYJ /\ header = HeaderB -> {Str(<<"da">>), NaN}
      [] OTHER -> {NaN}

AllCells == UNION {UNION {CellsOf(h, Strip(h[i])) : i \in DOMAIN h} : h \in Headers}

SheetRows(header) ==
    {r \in [DOMAIN header -> AllCells] :
        \A i \in DOMAIN header : r[i] \in CellsOf(header, Strip(header[i]))}

\* a file read_excel raises on
BadFile == [ok |-> FALSE, header |-> <<>>, cells |-> <<>>]

Sheet(header, cells) == [ok |-> TRUE, header |-> header, cells |-> cells]

FilesUpTo(nr) ==
    {BadFile} \cup
    UNION {UNION {{Sheet(h, cells) : cells \in [1..k -> SheetRows(h)]} :
                     k \in 0..nr} : h \in Headers}

\* the rows of the sheets read so far
RECURSIVE RowCount(_)
RowCount(folder) ==
    IF folder = <<>> THEN 0 ELSE Len(Head(folder).cells) + RowCount(Tail(folder))

(***************************************************************************)
(* The run of process_catalog                                              *)
(***************************************************************************)
NotWritten == [written |-> FALSE, columns |-> <<>>, rows |-> <<>>]

Written(df) == [written |-> TRUE, columns |-> df.columns, rows |-> df.rows]

EmptyFrame == DataFrame(<<>>, <<>>)

FiltersIdle ==
    /\ fx_pc = "idle"
    /\ fx_row = <<>>
    /\ fx_cols = <<>>
    /\ fx_result = NaN

Init ==
    /\ found = 0
    /\ files = <<>>
    /\ dataframes = <<>>
    /\ pc = "start"
    /\ raw_df = None
    /\ temp_df = EmptyFrame
    /\ final_df = EmptyFrame
    /\ output = NotWritten
    /\ FiltersIdle

\* files = glob.glob(...); if not files: return None
Glob ==
    /\ pc = "start"
    /\ \E n \in 0..MaxFiles :
          /\ found' = n
          /\ pc' = IF n = 0 THEN "loaded" ELSE "reading"
    /\ UNCHANGED <<files, dataframes, raw_df, temp_df, final_df, output, filter_vars>>

\* one iteration of the loop over files: read_excel succeeds, the frame is appended
ReadFile ==
    /\ pc = "reading"
    /\ Len(files) < found
    /\ \E file \in FilesUpTo(MaxRows - RowCount(files)) :
          /\ file.ok
          /\ files' = Append(files, file)
          /\ dataframes' = Append(dataframes, read_excel(file))
    /\ UNCHANGED <<found, pc, raw_df, temp_df, final_df, output, filter_vars>>


\* read_excel raises and the exception ends load_data: no data
ReadFileFails_aborts ==
    /\ pc = "reading"
    /\ Len(files) < found
    /\ files' = Append(files, BadFile)
    /\ pc' = "loaded"
    /\ UNCHANGED <<found, dataframes, raw_df, temp_df, final_df, output, filter_vars>>

\* one iteration of the loop over files: read_excel raises, the error is logged
ReadFileFails ==
    /\ pc = "reading"
    /\ Len(files) < found
    /\ files' = Append(files, BadFile)
    /\ UNCHANGED <<found, dataframes, pc, raw_df, temp_df, final_df, output, filter_vars>>

\* return pd.concat(dataframes, ...) if dataframes else None
ReturnData ==
    /\ pc = "reading"
    /\ Len(files) = found
    /\ raw_df' = IF dataframes # <<>> THEN concat(dataframes) ELSE None
    /\ pc' = "loaded"
    /\ UNCHANGED <<found, files, dataframes, temp_df, final_df, output, filter_vars>>

\* if raw_df is None: return
ReturnNoData ==
    /\ pc = "loaded"
    /\ raw_df = None
    /\ pc' = "no_data"
    /\ UNCHANGED <<found, files, dataframes, raw_df, temp_df, final_df, output, filter_vars>>

\* temp_df["Артикул"] = raw_df["Артикул"]
CopyIdentifier ==
    /\ pc = "loaded"
    /\ raw_df # None
    /\ ARTIKUL \in Range(current_cols(raw_df))
    /\ temp_df' = WithColumn(EmptyFrame, ARTIKUL, Column(raw_df, ARTIKUL))
    /\ pc' = "mapping"
    /\ UNCHANGED <<found, files, dataframes, raw_df, final_df, output, filter_vars>>


\* the else branch writing an empty catalog before it returns
ReturnNoIdentifier_writes ==
    /\ pc = "loaded"
    /\ raw_df # None
    /\ ARTIKUL \notin Range(current_cols(raw_df))
    /\ output' = Written(EmptyFrame)
    /\ pc' = "no_identifier"
    /\ UNCHANGED <<found, files, dataframes, raw_df, temp_df, final_df, filter_vars>>

\* the else branch: log the error and return
ReturnNoIdentifier ==
    /\ pc = "loaded"
    /\ raw_df # None
    /\ ARTIKUL \notin Range(current_cols(raw_df))
    /\ pc' = "no_identifier"
    /\ UNCHANGED <<found, files, dataframes, raw_df, temp_df, final_df, output, filter_vars>>

\* for target, sources in MAPPING.items(): ...
MapColumns ==
    /\ pc = "mapping"
    /\ temp_df' = MapFrom(temp_df, raw_df, 1)
    /\ pc' = "filters"
    /\ UNCHANGED <<found, files, dataframes, raw_df, final_df, output, filter_vars>>

\* temp_df[FILTERS_FIELD] = raw_df.apply(extract_filters, axis=1, source_columns=current_cols)
AttachFilters ==
    /\ pc = "filters"
    /\ temp_df' = WithColumn(temp_df, FILTERS_FIELD,
                     [i \in DOMAIN raw_df.rows |->
                         extract_filters(raw_df.rows[i], current_cols(raw_df))])
    /\ pc' = "merge"
    /\ UNCHANGED <<found, files, dataframes, raw_df, final_df, output, filter_vars>>

\* final_df = temp_df.groupby("Артикул", as_index=False).agg(...)
MergeDuplicates ==
    /\ pc = "merge"
    /\ final_df' = groupby_agg(temp_df, ARTIKUL)
    /\ pc' = "sort"
    /\ UNCHANGED <<found, files, dataframes, raw_df, temp_df, output, filter_vars>>

\* if "Производитель" in final_df.columns: final_df.sort_values(..., inplace=True)
SortByManufacturer ==
    /\ pc = "sort"
    /\ IF PROIZVODITEL \in Range(final_df.columns)
       THEN final_df' \in sort_values(final_df, PROIZVODITEL)
       ELSE final_df' = final_df
    /\ pc' = "save"
    /\ UNCHANGED <<found, files, dataframes, raw_df, temp_df, output, filter_vars>>

\* final_df.to_excel(OUTPUT_FILE, index=False)
Save ==
    /\ pc = "save"
    /\ output' = Written(final_df)
    /\ pc' = "saved"
    /\ UNCHANGED <<found, files, dataframes, raw_df, temp_df, final_df, filter_vars>>

\* to_excel raises (PermissionError or another exception): logged, nothing written
SaveFails ==
    /\ pc = "save"
    /\ pc' = "save_failed"
    /\ UNCHANGED <<found, files, dataframes, raw_df, temp_df, final_df, output, filter_vars>>

Next ==
    \/ Glob
    \/ ReadFile
    \/ ReadFileFails
    \/ ReturnData
    \/ ReturnNoData
    \/ CopyIdentifier
    \/ ReturnNoIdentifier
    \/ MapColumns
    \/ AttachFilters
    \/ MergeDuplicates
    \/ SortByManufacturer
    \/ Save
    \/ SaveFails

Spec == Init /\ [][Next]_vars

(***************************************************************************)
(* extract_filters on its own: one call on a row and its columns           *)
(***************************************************************************)
MaxFilterCols == 3

\* a flag column whose name matches the marker only after lower()
FLAG_CAPS == <<"Dopolnitelnyj", " ", "FILTR", " ", "tonkoj", " ", "ochistki", " ", "katehinovyj">>

\* a flag column that carries the prefix phrase after another word
FLAG_INNER == <<"Est", " ">> \o FILTER_PREFIX \o <<"plazmennyj">>

FilterColumns ==
    {FILTER_KEYS[2], FILTER_KEYS[3], FLAG_UGOLNYJ, FLAG_HEPA, FLAG_CAPS,
     FLAG_INNER, ARTIKUL}

FilterCells ==
    {NaN, Str(<<" ">>), Str(<<" ", "Da", " ">>), Str(<<"net">>), Num(1)}

ColumnLists ==
    {cols \in UNION {[1..k -> FilterColumns] : k \in 0..MaxFilterCols} :
        \A i, j \in DOMAIN cols : i # j => cols[i] # cols[j]}

PipelineIdle ==
    /\ found = 0
    /\ files = <<>>
    /\ dataframes = <<>>
    /\ pc = "idle"
    /\ raw_df = None
    /\ temp_df = EmptyFrame
    /\ final_df = EmptyFrame
    /\ output = NotWritten

\* the row is indexed by source_columns, as in the call of process_catalog
InitFilters ==
    /\ fx_cols \in ColumnLists
    /\ fx_row \in [Range(fx_cols) -> FilterCells]
    /\ fx_pc = "call"
    /\ fx_result = NaN
    /\ PipelineIdle

\* result = extract_filters(row, source_columns)
ExtractFilters ==
    /\ fx_pc = "call"
    /\ fx_result' = extract_filters(fx_row, fx_cols)
    /\ fx_pc' = "return"
    /\ UNCHANGED <<fx_row, fx_cols, pipeline_vars>>

NextFilters == ExtractFilters

SpecFilters == InitFilters /\ [][NextFilters]_vars

(***************************************************************************)
(* What the properties are stated about: the sheets as they lie in the     *)
(* folder, and the phases of the run                                       *)
(***************************************************************************)
\* the rows of the parsed sheets in folder order, each as <<file, row>>
RECURSIVE SourceRowsFrom(_)
SourceRowsFrom(k) ==
    IF k > Len(files) THEN <<>>
    ELSE (IF files[k].ok
          THEN [r \in 1..Len(files[k].cells) |-> [f |-> k, r |-> r]]
          ELSE <<>>)
         \o SourceRowsFrom(k + 1)

SourceRows == SourceRowsFrom(1)

\* the column names of sheet f, surrounding blanks dropped
SheetColumns(f) == {Strip(files[f].header[i]) : i \in DOMAIN files[f].header}

\* the cell of a source row under a column name; missing when its sheet lacks it
SourceCell(src, column) ==
    LET header == files[src.f].header
        at == {i \in DOMAIN header : Strip(header[i]) = column}
    IN  IF at = {} THEN NaN ELSE files[src.f].cells[src.r][CHOOSE i \in at : TRUE]

ParsedFiles == {f \in DOMAIN files : files[f].ok}

\* the column universe of the concatenated dataset
Universe == UNION {SheetColumns(f) : f \in ParsedFiles}

AfterLoad ==
    pc \in {"loaded", "no_data", "no_identifier", "mapping", "filters", "merge",
            "sort", "save", "saved", "save_failed"}

AfterMapping == pc \in {"filters", "merge", "sort", "save", "saved", "save_failed"}

AfterFilters == pc \in {"merge", "sort", "save", "saved", "save_failed"}

AfterMerge == pc \in {"sort", "save", "saved", "save_failed"}

AfterSort == pc \in {"save", "saved", "save_failed"}

Ended == pc \in {"no_data", "no_identifier", "saved", "save_failed"}

\* the identifier, the Alias Map fields in map order, the derived filters field
CanonicalSchema ==
    <<ARTIKUL>> \o [k \in DOMAIN MAPPING |-> MAPPING[k].target] \o <<FILTERS_FIELD>>

LeastOf(S) == CHOOSE x \in S : \A y \in S : x <= y

(***************************************************************************)
(* C9  Source load failures                                                *)
(***************************************************************************)
\* the loaded dataset holds the rows of the sheets that parsed, in folder
\* order, under the union of their columns, a missing cell where a sheet
\* lacks a column
DatasetIsParsedRows ==
    LET universe == Universe
        sources == SourceRows
    IN  /\ Range(raw_df.columns) = universe
        /\ Len(raw_df.rows) = Len(sources)
        /\ \A i \in DOMAIN raw_df.rows :
              /\ DOMAIN raw_df.rows[i] = universe
              /\ \A c \in universe : raw_df.rows[i][c] = SourceCell(sources[i], c)

\* C9 as amended: a file that fails to parse is skipped and does not abort the
\* run, the processed dataset is exactly the concatenation of the rows of the
\* files that parsed, and the run returns at the load check, nothing written,
\* exactly when no file was found or none could be loaded.
C9_LoadFailuresSkipped ==
    AfterLoad =>
        /\ (raw_df = None) <=> (ParsedFiles = {})
        /\ (pc = "loaded" /\ raw_df # None) => DatasetIsParsedRows
        /\ (pc = "no_data") => (ParsedFiles = {} /\ output = NotWritten)
        /\ (ParsedFiles = {} /\ pc # "loaded") => pc = "no_data"

\* a file failed to parse, another parsed and has rows, and the run went on
\* with those rows
C9_Witness ==
    /\ pc = "saved"
    /\ \E f \in DOMAIN files : ~files[f].ok
    /\ raw_df.rows # <<>>
    /\ output.rows # <<>>

\* C9 as stated: ... the pipeline aborts without writing any output exactly
\* when there are no source files or none of them could be loaded.
C9_AbortsOnlyWithoutSources ==
    /\ AfterLoad => ((raw_df = None) <=> (ParsedFiles = {}))
    /\ (pc = "loaded" /\ raw_df # None) => DatasetIsParsedRows
    /\ Ended => ((pc \in {"no_data", "no_identifier"}) <=> (ParsedFiles = {}))

(***************************************************************************)
(* C3  Identifier required                                                 *)
(***************************************************************************)
\* C3: when the column union of the loaded dataset lacks the identifier
\* column, the run ends at the identifier check: no reconciliation, no filter
\* extraction, no merge, no sort, no output rows and no output file.
C3_IdentifierRequired ==
    (AfterLoad /\ pc # "loaded" /\ ParsedFiles # {} /\ ARTIKUL \notin Universe) =>
        /\ pc = "no_identifier"
        /\ temp_df = EmptyFrame
        /\ final_df = EmptyFrame
        /\ output = NotWritten

\* a dataset with rows and no identifier column ended at the identifier check
C3_Witness ==
    /\ pc = "no_identifier"
    /\ raw_df.rows # <<>>
    /\ ARTIKUL \notin Universe

(***************************************************************************)
(* C2  Alias resolution                                                    *)
(***************************************************************************)
\* the aliases of an Alias Map entry that occur in a set of columns
AliasesIn(entry, columns) == {j \in DOMAIN entry.sources : entry.sources[j] \in columns}

\* C2: after the mapping loop each canonical field is bound to the first
\* alias of its list that occurs in the column universe of the whole
\* dataset; every row's field is that row's cell in the bound column and
\* nothing else (missing when the row's sheet lacks the column, whatever it
\* holds under a later alias); with no alias in the universe the field is
\* missing in every row, and the run goes on to the filters.
C2_AliasResolution ==
    pc = "filters" =>
        LET universe == Universe
            sources == SourceRows
        IN  /\ Len(temp_df.rows) = Len(sources)
            /\ \A k \in DOMAIN MAPPING :
                  LET present == AliasesIn(MAPPING[k], universe)
                  IN  \A i \in DOMAIN temp_df.rows :
                          temp_df.rows[i][MAPPING[k].target] =
                              IF present = {} THEN NaN
                              ELSE SourceCell(sources[i],
                                       MAPPING[k].sources[LeastOf(present)])

\* the manufacturer is bound to the first alias, and a row of a sheet that has
\* only the second alias, with a value under it, got a missing manufacturer;
\* another field has no alias in the universe
C2_Witness ==
    /\ pc = "filters"
    /\ BREND \in Universe
    /\ \E i \in DOMAIN temp_df.rows :
          /\ notna(SourceCell(SourceRows[i], PROIZVODITEL))
          /\ temp_df.rows[i][PROIZVODITEL] = NaN
    /\ \E i \in DOMAIN temp_df.rows : notna(temp_df.rows[i][PROIZVODITEL])
    /\ \E k \in DOMAIN MAPPING : AliasesIn(MAPPING[k], Universe) = {}

(***************************************************************************)
(* C1  Duplicate merge                                                     *)
(***************************************************************************)
\* the reconciled rows (temp_df, in concatenation order) with identifier X
RowsOf(X) == {i \in DOMAIN temp_df.rows : temp_df.rows[i][ARTIKUL] = X}

\* the identifier values of the reconciled rows
Identifiers == {v \in Range(Column(temp_df, ARTIKUL)) : notna(v)}

MergedFields == Range(CanonicalSchema) \ {ARTIKUL}

\* C1: for every identifier X and every canonical field F (the derived
\* filters field included) the merged row for X holds the first non-missing
\* value of F among the rows with identifier X in concatenation order, and
\* holds missing exactly when every row of the group has F missing; each
\* field is reduced on its own.
C1_FirstNonMissing ==
    AfterMerge =>
        \A X \in Identifiers :
            \E m \in DOMAIN final_df.rows :
                /\ final_df.rows[m][ARTIKUL] = X
                /\ \A F \in MergedFields :
                      LET valid == {i \in RowsOf(X) : notna(temp_df.rows[i][F])}
                      IN  final_df.rows[m][F] =
                              IF valid = {} THEN NaN
                              ELSE temp_df.rows[LeastOf(valid)][F]

\* an identifier with two rows: one field is missing in the first and present
\* in the second, another is present in the first and missing in the second,
\* and the merged row holds both values
C1_Witness ==
    /\ pc = "saved"
    /\ \E i, j \in DOMAIN temp_df.rows : \E F, G \in MergedFields :
          /\ i < j
          /\ notna(temp_df.rows[i][ARTIKUL])
          /\ temp_df.rows[i][ARTIKUL] = temp_df.rows[j][ARTIKUL]
          /\ ~notna(temp_df.rows[i][F]) /\ notna(temp_df.rows[j][F])
          /\ notna(temp_df.rows[i][G]) /\ ~notna(temp_df.rows[j][G])
          /\ \E m \in DOMAIN output.rows :
                /\ output.rows[m][F] = temp_df.rows[j][F]
                /\ output.rows[m][G] = temp_df.rows[i][G]

(***************************************************************************)
(* C4  Distinct-identifier count                                           *)
(***************************************************************************)
\* the identifier values of the loaded source rows (a missing identifier is
\* no value)
SourceIdentifiers ==
    {SourceCell(SourceRows[i], ARTIKUL) : i \in DOMAIN SourceRows} \ {NaN}

NoIdentifierTwice(rows) ==
    \A a, b \in DOMAIN rows : a # b => rows[a][ARTIKUL] # rows[b][ARTIKUL]

\* C4: when the run reaches the save step, the final rows are as many as the
\* distinct identifier values of the loaded source rows, and no identifier
\* value occurs in two of them; the written file holds these rows.
C4_DistinctIdentifierCount ==
    /\ AfterSort =>
          /\ Len(final_df.rows) = Cardinality(SourceIdentifiers)
          /\ NoIdentifierTwice(final_df.rows)
    /\ pc = "saved" =>
          /\ Len(output.rows) = Cardinality(SourceIdentifiers)
          /\ NoIdentifierTwice(output.rows)

\* two source rows share an identifier, a third value is missing or another
\* row differs: fewer rows are written than were loaded
C4_Witness ==
    /\ pc = "saved"
    /\ Len(output.rows) >= 1
    /\ Len(output.rows) < Len(SourceRows)
    /\ \E i, j \in DOMAIN SourceRows :
          /\ i # j
          /\ notna(SourceCell(SourceRows[i], ARTIKUL))
          /\ SourceCell(SourceRows[i], ARTIKUL) = SourceCell(SourceRows[j], ARTIKUL)

(***************************************************************************)
(* C10  Merge provenance                                                   *)
(***************************************************************************)
\* C10: every non-missing value of a field in the output row with identifier
\* X is the value of that field in some reconciled row with identifier X; no
\* output row has a missing identifier, so a row without identifier gives no
\* output row and no value to any output row.
C10_MergeProvenance ==
    LET FromOwnGroup(rows) ==
            \A m \in DOMAIN rows :
                /\ notna(rows[m][ARTIKUL])
                /\ \A F \in MergedFields :
                      notna(rows[m][F]) =>
                          \E i \in RowsOf(rows[m][ARTIKUL]) :
                              temp_df.rows[i][F] = rows[m][F]
    IN  /\ AfterMerge => FromOwnGroup(final_df.rows)
        /\ pc = "saved" => FromOwnGroup(output.rows)

\* a row without identifier carries a manufacturer that no row with an
\* identifier has, and the written rows do not hold it
C10_Witness ==
    /\ pc = "saved"
    /\ output.rows # <<>>
    /\ \E i \in DOMAIN temp_df.rows :
          /\ ~notna(temp_df.rows[i][ARTIKUL])
          /\ notna(temp_df.rows[i][PROIZVODITEL])
          /\ \A m \in DOMAIN output.rows :
                output.rows[m][PROIZVODITEL] # temp_df.rows[i][PROIZVODITEL]

(***************************************************************************)
(* C8  Canonical schema                                                    *)
(***************************************************************************)
HasSchema(frame, schema) ==
    /\ frame.columns = schema
    /\ \A i \in DOMAIN frame.rows : DOMAIN frame.rows[i] = Range(schema)

\* C8: the rows have exactly the canonical fields, in the order identifier,
\* Alias Map fields in map order, derived filters field: the reconciled rows
\* (before the filters field is attached: all but that field), the merged
\* rows, the sorted rows and the rows written, whichever source columns were
\* present and whichever fields had no alias.
C8_CanonicalSchema ==
    /\ pc = "filters" =>
          HasSchema(temp_df, SubSeq(CanonicalSchema, 1, Len(CanonicalSchema) - 1))
    /\ AfterFilters => HasSchema(temp_df, CanonicalSchema)
    /\ (AfterMerge /\ final_df.rows # <<>>) => HasSchema(final_df, CanonicalSchema)
    /\ (pc = "saved" /\ output.rows # <<>>) => HasSchema(output, CanonicalSchema)

\* rows were written from sheets that have source columns outside the schema
\* and lack an alias for some canonical field
C8_Witness ==
    /\ pc = "saved"
    /\ output.rows # <<>>
    /\ \E c \in Universe : c \notin Range(CanonicalSchema)
    /\ \E k \in DOMAIN MAPPING : AliasesIn(MAPPING[k], Universe) = {}

(***************************************************************************)
(* C6  Filter extraction result                                            *)
(***************************************************************************)
\* (1) the stringified values of the direct filter columns that are present,
\* non-missing and non-blank after trimming, in FILTER_KEYS order
RECURSIVE DirectPartsFrom(_, _)
DirectPartsFrom(row, k) ==
    IF k > Len(FILTER_KEYS) THEN <<>>
    ELSE (IF /\ FILTER_KEYS[k] \in DOMAIN row
             /\ notna(row[FILTER_KEYS[k]])
             /\ Strip(PyStr(row[FILTER_KEYS[k]])) # <<>>
          THEN <<PyStr(row[FILTER_KEYS[k]])>>
          ELSE <<>>)
         \o DirectPartsFrom(row, k + 1)

\* a boolean-flag column: the name contains the marker phrase, whatever the
\* case, and is no direct filter column
IsFlagColumn(c) ==
    /\ Contains(Lower(c), FILTER_MARKER)
    /\ \A k \in DOMAIN FILTER_KEYS : FILTER_KEYS[k] # c

\* a missing value affirms nothing
Affirmative(v) == notna(v) /\ Lower(Strip(PyStr(v))) \in YES_VALUES

\* (2) the flag columns the row affirms, in the order of columns
RECURSIVE AffirmedFlagsFrom(_, _, _)
AffirmedFlagsFrom(row, columns, k) ==
    IF k > Len(columns) THEN <<>>
    ELSE (IF IsFlagColumn(columns[k]) /\ Affirmative(row[columns[k]])
          THEN <<columns[k]>>
          ELSE <<>>)
         \o AffirmedFlagsFrom(row, columns, k + 1)

\* the column name with the fixed prefix stripped
StripPrefix(name) ==
    IF StartsWith(name, FILTER_PREFIX)
    THEN SubSeq(name, Len(FILTER_PREFIX) + 1, Len(name))
    ELSE name

\* the column name with every occurrence of the prefix phrase removed
RECURSIVE WithoutPhrase(_)
WithoutPhrase(name) ==
    LET at == {i \in 1..(Len(name) - Len(FILTER_PREFIX) + 1) :
                  SubSeq(name, i, i + Len(FILTER_PREFIX) - 1) = FILTER_PREFIX}
    IN  IF at = {} THEN name
        ELSE SubSeq(name, 1, LeastOf(at) - 1)
             \o WithoutPhrase(SubSeq(name, LeastOf(at) + Len(FILTER_PREFIX), Len(name)))

JoinedOrMissing(parts) == IF parts = <<>> THEN NaN ELSE Str(Join(<<",", " ">>, parts))

\* the labels with every occurrence of the phrase removed
FilterParts(row, columns) ==
    LET flags == AffirmedFlagsFrom(row, columns, 1)
    IN  DirectPartsFrom(row, 1) \o [i \in DOMAIN flags |-> WithoutPhrase(flags[i])]

\* the labels with the prefix stripped
FilterPartsPrefixStripped(row, columns) ==
    LET flags == AffirmedFlagsFrom(row, columns, 1)
    IN  DirectPartsFrom(row, 1) \o [i \in DOMAIN flags |-> StripPrefix(flags[i])]

\* C6 as amended: extract_filters returns the ", "-join of (1) the direct
\* filter values and (2) for each affirmed boolean-flag column, in column
\* order, the column name with every occurrence of the prefix phrase removed
\* (not only a leading one); a missing or non-affirmative flag value adds
\* nothing; the result is missing exactly when both parts are empty.
C6_FilterExtraction ==
    fx_pc = "return" =>
        /\ fx_result = JoinedOrMissing(FilterParts(fx_row, fx_cols))
        /\ (fx_result = NaN) <=>
              (DirectPartsFrom(fx_row, 1) = <<>> /\ AffirmedFlagsFrom(fx_row, fx_cols, 1) = <<>>)

\* a direct value and an affirmed flag (padded, capitalised) were joined in a
\* row that also has a flag column with a missing value
C6_Witness ==
    /\ fx_pc = "return"
    /\ DirectPartsFrom(fx_row, 1) # <<>>
    /\ AffirmedFlagsFrom(fx_row, fx_cols, 1) # <<>>
    /\ \E c \in Range(fx_cols) : IsFlagColumn(c) /\ fx_row[c] = NaN
    /\ fx_result = JoinedOrMissing(FilterParts(fx_row, fx_cols))
    /\ notna(fx_result)

\* C6 as stated: ... the column name with the fixed prefix stripped ...
C6_PrefixStripped ==
    fx_pc = "return" =>
        /\ fx_result = JoinedOrMissing(FilterPartsPrefixStripped(fx_row, fx_cols))
        /\ (fx_result = NaN) <=>
              (DirectPartsFrom(fx_row, 1) = <<>> /\ AffirmedFlagsFrom(fx_row, fx_cols, 1) = <<>>)

(***************************************************************************)
(* C7  The column set the filters are extracted with                       *)
(***************************************************************************)
\* the columns of the parsed sheets in the order first seen
RECURSIVE FirstSeenFrom(_, _)
FirstSeenFrom(k, seen) ==
    IF k > Len(files) THEN seen
    ELSE IF ~files[k].ok THEN FirstSeenFrom(k + 1, seen)
    ELSE LET header == [i \in DOMAIN files[k].header |-> Strip(files[k].header[i])]
         IN  FirstSeenFrom(k + 1,
                 seen \o SelectSeq(header, LAMBDA c : c \notin Range(seen)))

UnionOrder == FirstSeenFrom(1, <<>>)

\* a source row over the column universe
SourceRow(src) == [c \in Universe |-> SourceCell(src, c)]

\* the columns of the sheet a source row came from
OriginColumns(src) ==
    [k \in DOMAIN files[src.f].header |-> Strip(files[src.f].header[k])]

StablySorted(before, after) ==
    \E p \in Reorderings(Len(before)) :
        /\ after = [i \in DOMAIN before |-> before[p[i]]]
        /\ \A i, j \in DOMAIN before :
              i < j =>
                  LET a == before[p[i]][PROIZVODITEL]
                      b == before[p[j]][PROIZVODITEL]
                  IN  /\ ~(~notna(a) /\ notna(b))
                      /\ (notna(a) /\ notna(b) => ~ValueLess(b, a))
                      /\ (a = b => p[i] < p[j])

\* C5: the sort step leaves the merged rows sorted by manufacturer ascending,
\* the rows with a missing manufacturer last, and two rows with equal
\* manufacturer in the relative order they had before the sort.
C5_StableSort ==
    [][(pc = "sort" /\ pc' = "save") => StablySorted(final_df.rows, final_df'.rows)]_vars

====
